---- MODULE Spec2Model ----
(***************************************************************************)
(* Model of the Supertonic TTS plugin's request handler (src/logic.py):    *)
(* the Logic object with its lazily created engine handle, and the         *)
(* handlers generate_tts / get_voices / get_model_config of process_ajax.  *)
(*                                                                         *)
(* Strings are sequences of one-character strings.  The engine (the        *)
(* supertonic library), the file system and ffmpeg are collaborators       *)
(* whose answers are chosen nondeterministically.                          *)
(***************************************************************************)
EXTENDS Integers, Sequences, FiniteSets, TLC

(***************************************************************************)
(* Bounds of the model.                                                    *)
(***************************************************************************)
\* longest request text
MaxLen == 3
\* most characters one rejection lists
MaxBad == 2

Procs == {1, 2}

None == "None"

(***************************************************************************)
(* Characters.  "~" stands for a combining mark (U+0303) and "A" for the   *)
(* precomposed letter that NFC makes of "a" followed by it.                *)
(***************************************************************************)
Chars == {"a", "~", "A", ",", " "}
\* the characters of request texts
InputChars == {"a", "~", ",", " "}

RECURSIVE SeqsUpTo(_)
SeqsUpTo(n) ==
    IF n = 0 THEN {<<>>}
    ELSE LET S == SeqsUpTo(n - 1)
         IN  S \cup {Append(s, c) : s \in {t \in S : Len(t) = n - 1}, c \in InputChars}

Texts == SeqsUpTo(MaxLen)

(***************************************************************************)
(* Python string operations used by generate_tts.                          *)
(***************************************************************************)
IsSpace(c) == c = " "

Tail2(s) == SubSeq(s, 2, Len(s))
Front(s) == SubSeq(s, 1, Len(s) - 1)

\* s.lstrip(set) / s.rstrip(set) for a predicate given as a set of characters
RECURSIVE LStripSet(_, _)
LStripSet(s, cs) ==
    IF s # <<>> /\ s[1] \in cs THEN LStripSet(Tail2(s), cs) ELSE s

RECURSIVE RStripSet(_, _)
RStripSet(s, cs) ==
    IF s # <<>> /\ s[Len(s)] \in cs THEN RStripSet(Front(s), cs) ELSE s

\* str.strip(): whitespace off both ends
Whitespace == {c \in Chars : IsSpace(c)}

Strip(s) == RStripSet(LStripSet(s, Whitespace), Whitespace)

\* str.strip(ch): the character ch off both ends
StripChar(s, ch) == RStripSet(LStripSet(s, {ch}), {ch})

\* str.split(sep) for a one-character separator
RECURSIVE SplitAcc(_, _, _)
SplitAcc(s, sep, cur) ==
    IF s = <<>> THEN <<cur>>
    ELSE IF s[1] = sep THEN <<cur>> \o SplitAcc(Tail2(s), sep, <<>>)
    ELSE SplitAcc(Tail2(s), sep, Append(cur, s[1]))

Split(s, sep) == SplitAcc(s, sep, <<>>)

IsPrefix(p, s) == Len(p) <= Len(s) /\ SubSeq(s, 1, Len(p)) = p

\* str.replace(pat, ''): every non-overlapping occurrence from the left;
\* an empty pattern leaves the string as it is
RECURSIVE Replace(_, _)
Replace(s, pat) ==
    IF pat = <<>> \/ s = <<>> THEN s
    ELSE IF IsPrefix(pat, s) THEN Replace(SubSeq(s, Len(pat) + 1, Len(s)), pat)
    ELSE <<s[1]>> \o Replace(Tail2(s), pat)

\* unicodedata.normalize('NFC', text) on the model's alphabet
RECURSIVE NFC(_)
NFC(s) ==
    IF s = <<>> THEN s
    ELSE IF Len(s) >= 2 /\ s[1] = "a" /\ s[2] = "~"
         THEN <<"A">> \o NFC(SubSeq(s, 3, Len(s)))
    ELSE <<s[1]>> \o NFC(Tail2(s))

\* `not text or not text.strip()`
IsBlank(s) == s = <<>> \/ Strip(s) = <<>>

(***************************************************************************)
(* Exceptions and their messages.  A message is a sequence whose elements  *)
(* are single characters or a whole phrase kept as one element.            *)
(***************************************************************************)
\* str.lower() of a message element
LowerTok(t) ==
    IF t = "Unsupported Character in input" THEN "unsupported character in input" ELSE t

\* the phrases of the model that contain "unsupported character"
MarkerPhrases == {"found unsupported character(s): ", "unsupported character in input"}

\* "unsupported character" in error_msg.lower()
ContainsUnsupported(msg) == \E i \in 1..Len(msg) : LowerTok(msg[i]) \in MarkerPhrases

\* repr() of a one-character str, as str(list) formats its elements
PyRepr(c) == IF c = "'" THEN <<"\"", c, "\"">> ELSE <<"'", c, "'">>

RECURSIVE JoinRepr(_)
JoinRepr(l) ==
    IF l = <<>> THEN <<>>
    ELSE IF Len(l) = 1 THEN PyRepr(l[1])
    ELSE PyRepr(l[1]) \o <<",", " ">> \o JoinRepr(Tail2(l))

\* str(list) of a list of one-character strs
PyListStr(l) == <<"[">> \o JoinRepr(l) \o <<"]">>

\* the engine's rejection of a text for the characters in l
UnsupportedMsg(l) == <<"found unsupported character(s): ">> \o PyListStr(l)

SetMin(S) == CHOOSE x \in S : \A y \in S : x <= y

\* re.search(r"\[(.*?)\]", error_msg): the leftmost "[" that a "]" follows,
\* up to the first "]" after it
ReSearch(msg) ==
    LET opens == {i \in 1..Len(msg) :
                    msg[i] = "[" /\ \E j \in (i + 1)..Len(msg) : msg[j] = "]"}
    IN  IF opens = {} THEN [found |-> FALSE, group |-> <<>>]
        ELSE LET i == SetMin(opens)
                 j == SetMin({k \in (i + 1)..Len(msg) : msg[k] = "]"})
             IN  [found |-> TRUE, group |-> SubSeq(msg, i + 1, j - 1)]

\* c.strip().strip("'").strip('"')
CleanToken(c) == StripChar(StripChar(Strip(c), "'"), "\"")

\* bad_chars = [c.strip().strip("'").strip('"') for c in chars_str.split(',')]
BadChars(chars_str) ==
    LET parts == Split(chars_str, ",")
    IN  [i \in 1..Len(parts) |-> CleanToken(parts[i])]

\* for char in bad_chars: text = text.replace(char, '')
RECURSIVE RemoveAll(_, _)
RemoveAll(text, bad) ==
    IF bad = <<>> THEN text ELSE RemoveAll(Replace(text, bad[1]), Tail2(bad))

\* the text the retry goes on with after a rejection with message msg
StripRejected(text, msg) == RemoveAll(text, BadChars(ReSearch(msg).group))

(***************************************************************************)
(* Numbers of generate_tts.  Speeds are in tenths (7 is 0.7); NaN is the   *)
(* float that float("nan") parses to, for which every comparison is false. *)
(***************************************************************************)
F(n) == [nan |-> FALSE, tenths |-> n]
NaN == [nan |-> TRUE, tenths |-> 0]
NativeMin == 7
NativeMax == 20
NativeDefault == 10
\* a retry budget one too large
max_retries_four == 3 + 1

max_retries == 3

Speeds == {F(NativeMin - 2), F(NativeMin), F(NativeMax), F(NativeMax + 1), NaN}

\* a < b on floats
FLt(a, b) == ~a.nan /\ ~b.nan /\ a.tenths < b.tenths

\* `target_speed < 0.7 or target_speed > 2.0`
OutsideNative(target_speed) ==
    FLt(target_speed, F(NativeMin)) \/ FLt(F(NativeMax), target_speed)

\* native_speed as lines 186-192 leave it
NativeSpeed(target_speed) ==
    IF OutsideNative(target_speed) THEN F(NativeDefault) ELSE target_speed

(***************************************************************************)
(* The engine.                                                             *)
(***************************************************************************)
\* voice_style_names of an engine object (absent: getattr's default [])
VoiceLists == {<<>>, <<"M1", "F1">>}
\* the voice parameter of a request
VoiceParams == {"default", "F1"}

\* the characters of t, each once, in the order they first occur
RECURSIVE Distinct(_)
Distinct(t) ==
    IF t = <<>> THEN <<>>
    ELSE LET d == Distinct(Front(t))
         IN  IF \E i \in 1..Len(d) : d[i] = t[Len(t)] THEN d ELSE Append(d, t[Len(t)])

\* the lists of characters a rejection of the text t may name: at most
\* MaxBad characters of t, in the order they occur in t
BadLists(t) ==
    LET d == Distinct(t)
    IN  {[i \in 1..Len(l) |-> l[i]] :
            l \in {SelectSeq(d, LAMBDA c : c \in S) :
                     S \in {X \in SUBSET {d[i] : i \in 1..Len(d)} :
                              X # {} /\ Cardinality(X) <= MaxBad}}}

\* an exception: its type, its message and, for the model's bookkeeping, the
\* characters its message lists
ValueErr(m) == [kind |-> "raise", type |-> "ValueError", msg |-> m, listed |-> <<>>]

\* what engine.synthesize may answer when given the text t
SynthAnswers(t) ==
    {[kind |-> "ok", type |-> None, msg |-> <<>>, listed |-> <<>>],
     [kind |-> "none", type |-> None, msg |-> <<>>, listed |-> <<>>],
     ValueErr(<<"Unsupported Character in input">>),
     ValueErr(<<"invalid voice style">>),
     [kind |-> "raise", type |-> "RuntimeError",
      msg |-> UnsupportedMsg(<<t[1]>>), listed |-> <<t[1]>>]}
    \cup {[kind |-> "raise", type |-> "ValueError",
           msg |-> UnsupportedMsg(l), listed |-> l] : l \in BadLists(t)}

(***************************************************************************)
(* State.                                                                  *)
(***************************************************************************)
VARIABLES
    tts,      \* self.tts: NoEngine (None) or an engine object (its index in heap)
    voices,   \* self.voices
    heap,     \* the engine objects constructed so far: their voice_style_names
    req,      \* per request thread: position and locals of the handler
    obs       \* per request thread: what the request has done so far (history)

vars == <<tts, voices, heap, req, obs>>

\* no engine object: Python's None where an engine is expected
NoEngine == 0
\* no audio: `wav = None`; the audio the n-th synthesize call returns is n
NoAudio == 0
NoResult == [ret |-> None]
NoErr == [kind |-> None, type |-> None, msg |-> <<>>, listed |-> <<>>]

IdleReq ==
    [pc |-> "idle", kind |-> None, text |-> <<>>,
     speed |-> F(NativeDefault), engine |-> NoEngine, built |-> NoEngine,
     native_speed |-> F(NativeDefault), use_ffmpeg_speed |-> FALSE, style |-> None,
     attempt |-> 0, wav |-> NoAudio, filename |-> "", adjusted |-> FALSE,
     result |-> NoResult]

\* history of a request: the synthesize calls made and the last of them (the
\* text, speed and engine it was given and its answer), the save_audio calls,
\* the ffmpeg run, the TTS constructor runs, the strippings of the text, and
\* the exception the outer handler caught; savedWav and savedFile are the
\* arguments of the last save_audio call
NoCall == [text |-> <<>>, speed |-> F(NativeDefault), engine |-> NoEngine, answer |-> NoErr]

IdleObs ==
    [ncalls |-> 0, last |-> NoCall, saves |-> 0, savedWav |-> NoAudio,
     savedFile |-> <<>>, ffmpeg |-> "no", ctors |-> 0, strips |-> 0, raised |-> NoErr]

\* Logic.__init__
Init ==
    /\ tts = NoEngine
    /\ voices = <<>>
    /\ heap = <<>>
    /\ req = [p \in Procs |-> IdleReq]
    /\ obs = [p \in Procs |-> IdleObs]

Set(p, r) == req' = [req EXCEPT ![p] = r]
Note(p, o) == obs' = [obs EXCEPT ![p] = o]

\* an outer handler that catches ValueError only
Caught_onlyValueError(p, e, r, o) ==
    IF e.type = "ValueError"
    THEN /\ Set(p, [r EXCEPT !.pc = "done",
                             !.result = [ret |-> "error",
                                         message |-> <<"generation failed: ">> \o e.msg]])
         /\ Note(p, [o EXCEPT !.raised = e])
    ELSE \* the exception leaves generate_tts: no payload
         /\ Set(p, [r EXCEPT !.pc = "done", !.result = NoResult])
         /\ Note(p, [o EXCEPT !.raised = e])

\* the outer `except Exception as e` of generate_tts
Caught(p, e, r, o) ==
    /\ Set(p, [r EXCEPT !.pc = "done",
                        !.result = [ret |-> "error",
                                    message |-> <<"generation failed: ">> \o e.msg]])
    /\ Note(p, [o EXCEPT !.raised = e])

(***************************************************************************)
(* process_ajax: a request arrives.                                        *)
(***************************************************************************)
Begin(p, kind, text, speed) ==
    /\ req[p].pc = "idle"
    /\ Set(p, [IdleReq EXCEPT !.pc = kind, !.kind = kind, !.text = text,
                              !.speed = speed])
    /\ Note(p, IdleObs)
    /\ UNCHANGED <<tts, voices, heap>>

\* sub == 'generate', one request at a time
StartGenerate(p) ==
    /\ \A q \in Procs : req[q].pc = "idle"
    /\ \E text \in Texts, speed \in Speeds :
          Begin(p, "generate", text, speed)

\* sub == 'get_voices' / 'get_model_config', one request at a time
StartOther(p) ==
    /\ \A q \in Procs : req[q].pc = "idle"
    /\ \E kind \in {"get_voices", "get_model_config"} :
          Begin(p, kind, <<>>, F(NativeDefault))

\* sub == 'get_model_config': answers with self.voices, no engine
GetModelConfig(p) ==
    /\ req[p].pc = "get_model_config"
    /\ Set(p, [req[p] EXCEPT !.pc = "done",
                             !.result = [ret |-> "success", voices |-> voices]])
    /\ UNCHANGED <<tts, voices, heap, obs>>

\* the response is sent; the thread takes the next request
Finish(p) ==
    /\ req[p].pc = "done"
    /\ Set(p, IdleReq)
    /\ Note(p, IdleObs)
    /\ UNCHANGED <<tts, voices, heap>>

(***************************************************************************)
(* Logic._get_engine, statement by statement.                              *)
(***************************************************************************)
\* sub == 'get_voices': calls _get_engine
GetVoicesEntry(p) ==
    /\ req[p].pc = "get_voices"
    /\ Set(p, [req[p] EXCEPT !.pc = "ge_check"])
    /\ UNCHANGED <<tts, voices, heap, obs>>

\* the check left out: every call constructs
NeedsConstruction_always(handle) == TRUE

\* `if self.tts is None:`
NeedsConstruction(handle) == handle = NoEngine

GeCheck(p) ==
    /\ req[p].pc = "ge_check"
    /\ Set(p, [req[p] EXCEPT !.pc = IF NeedsConstruction(tts) THEN "ge_ctor" ELSE "ge_ret"])
    /\ UNCHANGED <<tts, voices, heap, obs>>

\* `TTS(auto_download=True)`: a new engine object, or an exception, which
\* _get_engine logs before it returns None
GeCtor(p) ==
    /\ req[p].pc = "ge_ctor"
    /\ Note(p, [obs[p] EXCEPT !.ctors = @ + 1])
    /\ \/ \E vl \in VoiceLists :
            /\ heap' = Append(heap, vl)
            /\ Set(p, [req[p] EXCEPT !.pc = "ge_store", !.built = Len(heap) + 1])
       \/ /\ Set(p, [req[p] EXCEPT !.pc = "ge_done", !.engine = NoEngine])
          /\ heap' = heap
    /\ UNCHANGED <<tts, voices>>

\* a store that keeps a handle another request has stored meanwhile
StoredHandle_keepFirst(current, built) == IF current = NoEngine THEN built ELSE current

\* the handle `self.tts = ...` leaves, given the current one and the new object
StoredHandle(current, built) == built

GeStore(p) ==
    /\ req[p].pc = "ge_store"
    /\ tts' = StoredHandle(tts, req[p].built)
    /\ Set(p, [req[p] EXCEPT !.pc = "ge_voices"])
    /\ UNCHANGED <<voices, heap, obs>>

\* `self.voices = getattr(self.tts, 'voice_style_names', [])`
GeVoices(p) ==
    /\ req[p].pc = "ge_voices"
    /\ voices' = heap[tts]
    /\ Set(p, [req[p] EXCEPT !.pc = "ge_ret"])
    /\ UNCHANGED <<tts, heap, obs>>

\* `return self.tts`
GeRet(p) ==
    /\ req[p].pc = "ge_ret"
    /\ Set(p, [req[p] EXCEPT !.pc = "ge_done", !.engine = tts])
    /\ UNCHANGED <<tts, voices, heap, obs>>

\* sub == 'get_voices': the response
GetVoicesRespond(p) ==
    /\ req[p].pc = "ge_done"
    /\ req[p].kind = "get_voices"
    /\ Set(p, [req[p] EXCEPT !.pc = "done",
                !.result = [ret |-> IF req[p].engine # NoEngine THEN "success" ELSE "error",
                            voices |-> voices]])
    /\ UNCHANGED <<tts, voices, heap, obs>>

(***************************************************************************)
(* Logic.generate_tts.                                                     *)
(***************************************************************************)
\* the empty check, NFC, and the call of _get_engine
GenEntry(p) ==
    /\ req[p].pc = "generate"
    /\ IF IsBlank(req[p].text)
         THEN Set(p, [req[p] EXCEPT !.pc = "done",
                       !.result = [ret |-> "error", message |-> <<"input text is empty">>]])
         ELSE Set(p, [req[p] EXCEPT !.pc = "ge_check", !.text = NFC(@)])
    /\ UNCHANGED <<tts, voices, heap, obs>>

\* `voice if voice in self.voices else (self.voices[0] if self.voices else "M1")`
VoiceName(voice, vs) ==
    IF \E i \in 1..Len(vs) : vs[i] = voice THEN voice
    ELSE IF vs # <<>> THEN vs[1] ELSE "M1"

StyleErr == [kind |-> "raise", type |-> "KeyError", msg |-> <<"voice style">>, listed |-> <<>>]

\* from the engine check to the voice style; the request's voice parameter
\* is read here and nowhere else
GenPrepare(p) ==
    /\ req[p].pc = "ge_done"
    /\ req[p].kind = "generate"
    /\ UNCHANGED <<tts, voices, heap>>
    /\ IF req[p].engine = NoEngine
         THEN /\ Set(p, [req[p] EXCEPT !.pc = "done",
                          !.result = [ret |-> "error",
                                      message |-> <<"engine initialization failed">>]])
              /\ UNCHANGED obs
         ELSE LET r == [req[p] EXCEPT
                          !.native_speed = NativeSpeed(req[p].speed),
                          !.use_ffmpeg_speed = OutsideNative(req[p].speed),
                          !.pc = "synth"]
              IN  \* get_voice_style(voice_name) answers
                  \/ /\ \E voice \in VoiceParams :
                            Set(p, [r EXCEPT !.style = VoiceName(voice, voices)])
                     /\ UNCHANGED obs
                  \* it raises; the fallback answers
                  \/ /\ voices # <<>>
                     /\ Set(p, [r EXCEPT !.style = voices[1]])
                     /\ UNCHANGED obs
                  \* it raises; there is no voice to fall back to
                  \/ /\ voices = <<>>
                     /\ Set(p, [r EXCEPT !.style = None])
                     /\ UNCHANGED obs
                  \* it raises; the fallback raises too
                  \/ /\ voices # <<>>
                     /\ Caught(p, StyleErr, r, obs[p])

\* the retry condition without `attempt < max_retries - 1`
Retryable_noBound(a, attempt) ==
    /\ a.kind = "raise"
    /\ a.type = "ValueError"
    /\ ContainsUnsupported(a.msg)
    /\ ReSearch(a.msg).found

\* the retry condition under `except Exception` instead of `except ValueError`
Retryable_anyType(a, attempt) ==
    /\ a.kind = "raise"
    /\ ContainsUnsupported(a.msg)
    /\ attempt < max_retries - 1
    /\ ReSearch(a.msg).found

\* `except ValueError` with the retry condition of line 223 and a match
Retryable(a, attempt) ==
    /\ a.kind = "raise"
    /\ a.type = "ValueError"
    /\ ContainsUnsupported(a.msg)
    /\ attempt < max_retries - 1
    /\ ReSearch(a.msg).found

EmptiedErr == ValueErr(<<"text is empty after removing unsupported characters">>)

\* the check without .strip()
EmptiedAfterStrip_noStrip(t) == t = <<>>

\* `if not text.strip():` after the removal
EmptiedAfterStrip(t) == Strip(t) = <<>>

\* one iteration of `for attempt in range(max_retries)`; the loop ends by
\* itself once range(max_retries) is used up
Synth(p) ==
    /\ req[p].pc = "synth"
    /\ UNCHANGED <<tts, voices, heap>>
    /\ IF req[p].attempt >= max_retries
       THEN /\ Set(p, [req[p] EXCEPT !.pc = "after_loop"])
            /\ UNCHANGED obs
       ELSE
       \E a \in SynthAnswers(req[p].text) :
         LET r == req[p]
             o == [obs[p] EXCEPT
                      !.ncalls = @ + 1,
                      !.last = [text |-> r.text, speed |-> r.native_speed,
                                engine |-> r.engine, answer |-> a]]
         IN  IF a.kind # "raise"
             THEN \* `break`
                  /\ Set(p, [r EXCEPT !.pc = "after_loop",
                                      !.wav = IF a.kind = "ok" THEN o.ncalls ELSE NoAudio])
                  /\ Note(p, o)
             ELSE IF Retryable(a, r.attempt)
             THEN LET t == StripRejected(r.text, a.msg)
                      o2 == [o EXCEPT !.strips = @ + 1]
                  IN  IF EmptiedAfterStrip(t)
                      THEN Caught(p, EmptiedErr, [r EXCEPT !.text = t], o2)
                      ELSE \* `continue`
                           /\ Set(p, [r EXCEPT !.text = t, !.attempt = @ + 1])
                           /\ Note(p, o2)
             ELSE \* `raise ve`, or an exception that is no ValueError
                  Caught(p, a, r, o)

EmptyWavErr == ValueErr(<<"synthesis result is empty">>)
SaveErr == [kind |-> "raise", type |-> "OSError", msg |-> <<"save_audio">>, listed |-> <<>>]

\* the check left out
WavIsNone_never(wav) == FALSE

\* `if wav is None:`
WavIsNone(wav) == wav = NoAudio

\* f"tts_{os.urandom(4).hex()}.wav"
FileNames == {"tts_0a1b2c3d.wav", "tts_9e8f7a6b.wav"}

\* os.path.join(static_dir, filename)
OutputPath(filename) == <<"plugin", "static", "output", filename>>

\* f"/{self.P.package_name}/static/output/{filename}"
Url(filename) == <<"", "package_name", "static", "output", filename>>

\* the wav check, the output path and engine.save_audio(wav, output_path)
AfterLoop(p) ==
    /\ req[p].pc = "after_loop"
    /\ UNCHANGED <<tts, voices, heap>>
    /\ IF WavIsNone(req[p].wav)
         THEN Caught(p, EmptyWavErr, req[p], obs[p])
         ELSE \E filename \in FileNames :
              LET r == [req[p] EXCEPT !.filename = filename]
                  o == [obs[p] EXCEPT !.saves = @ + 1,
                                      !.savedWav = req[p].wav,
                                      !.savedFile = OutputPath(filename)]
              IN  \/ /\ Set(p, [r EXCEPT
                                  !.pc = IF req[p].use_ffmpeg_speed THEN "ffmpeg" ELSE "return"])
                     /\ Note(p, o)
                  \/ Caught(p, SaveErr, r, o)

FfmpegErr ==
    [kind |-> "raise", type |-> "CalledProcessError", msg |-> <<"ffmpeg">>, listed |-> <<>>]

\* an ffmpeg failure that is left to the outer handler
FfmpegFailed_raise(p, r, o) == Caught(p, FfmpegErr, r, o)

\* what the `except Exception as ffmpeg_err` handler leaves of a failed run
FfmpegFailed(p, r, o) ==
    /\ Set(p, [r EXCEPT !.pc = "return"])
    /\ Note(p, o)

\* the ffmpeg atempo run: it replaces the file, leaves no output, or fails
Ffmpeg(p) ==
    /\ req[p].pc = "ffmpeg"
    /\ UNCHANGED <<tts, voices, heap>>
    /\ \/ /\ Set(p, [req[p] EXCEPT !.pc = "return", !.adjusted = TRUE])
          /\ Note(p, [obs[p] EXCEPT !.ffmpeg = "ok"])
       \/ /\ Set(p, [req[p] EXCEPT !.pc = "return"])
          /\ Note(p, [obs[p] EXCEPT !.ffmpeg = "nofile"])
       \/ FfmpegFailed(p, req[p], [obs[p] EXCEPT !.ffmpeg = "fail"])

\* the success payload
Return(p) ==
    /\ req[p].pc = "return"
    /\ Set(p, [req[p] EXCEPT !.pc = "done",
                !.result = [ret |-> "success", url |-> Url(req[p].filename),
                            adjusted |-> req[p].adjusted]])
    /\ UNCHANGED <<tts, voices, heap, obs>>

(***************************************************************************)
(* Specifications.                                                         *)
(***************************************************************************)
Handle(p) ==
    \/ GetModelConfig(p)
    \/ GetVoicesEntry(p)
    \/ GeCheck(p)
    \/ GeCtor(p)
    \/ GeStore(p)
    \/ GeVoices(p)
    \/ GeRet(p)
    \/ GetVoicesRespond(p)
    \/ GenEntry(p)
    \/ GenPrepare(p)
    \/ Synth(p)
    \/ AfterLoop(p)
    \/ Ffmpeg(p)
    \/ Return(p)
    \/ Finish(p)

\* requests handled one at a time, as the host framework hands them over
Next == \E p \in {1} : StartGenerate(p) \/ StartOther(p) \/ Handle(p)

Spec == Init /\ [][Next]_vars

\* the texts and speeds of the requests that run interleaved
ConcTexts == {<<"a">>, <<>>}
ConcSpeeds == {F(NativeDefault), F(NativeMax + 1)}

\* requests on two threads, interleaved statement by statement
StartConc(p) ==
    \/ \E text \in ConcTexts, speed \in ConcSpeeds : Begin(p, "generate", text, speed)
    \/ \E kind \in {"get_voices", "get_model_config"} :
          Begin(p, kind, <<>>, F(NativeDefault))

NextConc == \E p \in Procs : StartConc(p) \/ Handle(p)

SpecConc == Init /\ [][NextConc]_vars

(***************************************************************************)
(* Properties.                                                             *)
(***************************************************************************)
Generating(p) == req[p].kind = "generate"
Done(p) == req[p].pc = "done"
Calls(p) == obs[p].ncalls
LastCall(p) == obs[p].last
LastAnswer(p) == obs[p].last.answer
Payload(p) == req[p].result
Failure(e) == [ret |-> "error", message |-> <<"generation failed: ">> \o e.msg]

\* the text t without the characters of the list l
Without(t, l) == SelectSeq(t, LAMBDA c : \A i \in 1..Len(l) : l[i] # c)
Occurs(c, t) == \E i \in 1..Len(t) : t[i] = c

\* an 'unsupported character' ValueError that lists characters in brackets
ListsUnsupported(a) == a.kind = "raise" /\ a.type = "ValueError" /\ a.listed # <<>>
\* a ValueError for unsupported characters, with a list or without
RejectsUnsupported(a) ==
    \/ ListsUnsupported(a)
    \/ a.kind = "raise" /\ a.type = "ValueError"
          /\ a.msg = <<"Unsupported Character in input">>
\* any other failure of synthesize
OtherFailure(a) == a.kind = "raise" /\ ~ListsUnsupported(a)

\* C1: synthesize is called at most 3 times in a request, whatever the engine
\* answers; after the third call the request is past the loop, it ends at
\* once if that call failed and can always take its next step otherwise, and
\* a request that has ended holds a payload whose ret is 'success' or 'error'.
C1_AtMostThreeSyntheses ==
    \A p \in Procs :
        /\ Calls(p) <= 3
        /\ Calls(p) = 3 =>
              /\ req[p].pc \in {"after_loop", "ffmpeg", "return", "done"}
              /\ LastAnswer(p).kind = "raise" => Done(p)
              /\ ~Done(p) => ENABLED Handle(p)
        /\ (Generating(p) /\ Done(p)) => Payload(p).ret \in {"success", "error"}

\* three rejections in a row, each listing characters: the third ends the request
C1_Witness ==
    \E p \in Procs :
        Calls(p) = 3 /\ Done(p) /\ ListsUnsupported(LastAnswer(p)) /\ obs[p].strips = 2

\* C2: after a rejection that lists characters, with an attempt left, the
\* text of the next synthesize call is the rejected text without every
\* occurrence of the listed characters, and nothing else is changed.
C2_ListedCharactersRemoved ==
    \A p \in Procs :
        (req[p].pc = "synth" /\ req[p].attempt > 0 /\ req[p].attempt < 3) =>
            /\ ListsUnsupported(LastAnswer(p))
            /\ req[p].text = Without(LastCall(p).text, LastAnswer(p).listed)
            /\ \A i \in 1..Len(LastAnswer(p).listed) :
                   ~Occurs(LastAnswer(p).listed[i], req[p].text)

\* what does hold of C2's retry: the same, for the rejections that do not
\* list the comma
C2_ExceptComma ==
    \A p \in Procs :
        (req[p].pc = "synth" /\ req[p].attempt > 0 /\ req[p].attempt < 3
            /\ ~Occurs(",", LastAnswer(p).listed)) =>
            /\ ListsUnsupported(LastAnswer(p))
            /\ req[p].text = Without(LastCall(p).text, LastAnswer(p).listed)

\* C3: when the removal leaves the text empty or whitespace-only the request
\* ends at once with ret='error'; synthesize is never given a blank text and
\* save_audio is not called.
C3_EmptiedTextFails ==
    \A p \in Procs :
        /\ (obs[p].strips > 0 /\ IsBlank(req[p].text)) =>
              /\ Done(p)
              /\ Payload(p) = Failure(EmptiedErr)
              /\ Calls(p) = obs[p].strips
              /\ obs[p].saves = 0
              /\ obs[p].ffmpeg = "no"
        /\ Calls(p) > 0 => ~IsBlank(LastCall(p).text)

\* the removal left only whitespace
C3_Witness ==
    \E p \in Procs :
        /\ obs[p].strips > 0 /\ req[p].text # <<>> /\ IsBlank(req[p].text)
        /\ Done(p) /\ Payload(p).ret = "error"

\* C4: when all 3 attempts are rejected for unsupported characters the
\* request ends with ret='error' carrying the engine's third rejection (not
\* the empty-result error), the third rejection strips nothing, and nothing
\* is saved.
C4_RetriesExhausted ==
    \A p \in Procs :
        (Calls(p) = 3 /\ RejectsUnsupported(LastAnswer(p))) =>
            /\ Done(p)
            /\ obs[p].raised = LastAnswer(p)
            /\ Payload(p) = Failure(LastAnswer(p))
            /\ Payload(p) # Failure(EmptyWavErr)
            /\ obs[p].strips = 2
            /\ req[p].text = LastCall(p).text
            /\ obs[p].saves = 0
            /\ obs[p].ffmpeg = "no"

\* the third rejection lists a character the text still holds
C4_Witness ==
    \E p \in Procs :
        /\ Calls(p) = 3 /\ ListsUnsupported(LastAnswer(p)) /\ Done(p)
        /\ \E i \in 1..Len(LastAnswer(p).listed) :
              Occurs(LastAnswer(p).listed[i], req[p].text)

\* the encoder step failed: the run failed, or it left no output file
EncoderFailed(p) == obs[p].ffmpeg \in {"fail", "nofile"}

\* C5 as stated: whenever the encoder step fails, the result has ret='error'.
C5_EncoderFailureIsError ==
    \A p \in Procs : (Done(p) /\ EncoderFailed(p)) => Payload(p).ret = "error"

\* C5 as the code has it: a failure of the encoder step is swallowed by its
\* own handler; the request ends with ret='success' for the file save_audio
\* wrote, its duration not adjusted.
C5_EncoderFailureIsSwallowed ==
    \A p \in Procs :
        (Done(p) /\ EncoderFailed(p)) =>
            /\ Payload(p).ret = "success"
            /\ Payload(p).adjusted = FALSE
            /\ obs[p].saves = 1
            /\ obs[p].raised = NoErr

\* the ffmpeg run failed and the request has ended
C5_Witness == \E p \in Procs : Done(p) /\ obs[p].ffmpeg = "fail"

\* the engine failed in a way the request did not recover from
EngineFailed(p) ==
    \/ obs[p].ctors > 0 /\ req[p].engine = NoEngine
    \/ Calls(p) > 0 /\ LastAnswer(p).kind = "raise"
    \/ obs[p].raised \in {SaveErr, StyleErr}

BelowOrAbove(s) == ~s.nan /\ (s.tenths < 7 \/ s.tenths > 20)
InsideNative(s) == ~s.nan /\ s.tenths >= 7 /\ s.tenths <= 20

\* ffmpeg runs exactly when the speed is below 0.7 or above 2.0 and the audio
\* was synthesized and saved; synthesize is then given 1.0, else the
\* requested speed
SpeedBranching(p) ==
    /\ (Generating(p) /\ Done(p)) =>
          (obs[p].ffmpeg # "no" <=>
              (BelowOrAbove(req[p].speed) /\ obs[p].saves = 1 /\ obs[p].raised = NoErr))
    /\ Calls(p) > 0 =>
          LastCall(p).speed = IF BelowOrAbove(req[p].speed) THEN F(10) ELSE req[p].speed

\* C7: ffmpeg runs iff the speed is outside [0.7, 2.0] and the audio was
\* saved, synthesize gets 1.0 then and the requested speed otherwise, and so
\* every synthesize call is given a speed inside [0.7, 2.0].
C7_SpeedInsideNativeRange ==
    \A p \in Procs :
        /\ SpeedBranching(p)
        /\ Calls(p) > 0 => InsideNative(LastCall(p).speed)

\* what does hold of C7: the branching, and the range for every speed that
\* is a number
C7_ExceptNaN ==
    \A p \in Procs :
        /\ SpeedBranching(p)
        /\ (Calls(p) > 0 /\ ~req[p].speed.nan) => InsideNative(LastCall(p).speed)

\* a step of p that runs the TTS constructor
RunsConstructor(p) == obs'[p].ctors = obs[p].ctors + 1
\* a construction is complete: the handle is stored and the voices are read
Constructed == tts # NoEngine /\ \A p \in Procs : req[p].pc # "ge_voices"

\* C8: with requests handled one at a time, the constructor runs only in a
\* request that needs the engine and only while no construction has
\* succeeded; a failed run leaves self.tts None and self.voices as they
\* were; a stored handle is never replaced, and once the construction is
\* complete self.tts and self.voices never change.
C8_Step ==
    /\ \A p \in Procs :
          RunsConstructor(p) =>
              /\ req[p].kind \in {"generate", "get_voices"}
              /\ Generating(p) => ~IsBlank(req[p].text)
              /\ tts = NoEngine /\ heap = <<>>
              /\ tts' = NoEngine /\ voices' = voices
              /\ heap' = heap => req'[p].engine = NoEngine
    /\ tts # NoEngine => tts' = tts
    /\ Constructed => voices' = voices
    /\ Len(heap') <= 1

C8_LazyEngineOnce == [][C8_Step]_vars

\* a later request gets the handle an earlier request constructed
C8_Witness ==
    \E p \in Procs :
        /\ req[p].pc = "ge_done" /\ obs[p].ctors = 0
        /\ req[p].engine = tts /\ tts # NoEngine /\ voices = heap[tts]

\* C9: a failure of synthesize that is no ValueError listing unsupported
\* characters ends the request at that call: ret='error' with the engine's
\* error, the text as it was given to the call, one call per earlier retry
\* plus this one.
C9_OnlyUnsupportedIsRetried ==
    \A p \in Procs :
        (Calls(p) > 0 /\ OtherFailure(LastAnswer(p))) =>
            /\ Done(p)
            /\ Payload(p) = Failure(LastAnswer(p))
            /\ req[p].text = LastCall(p).text
            /\ Calls(p) = obs[p].strips + 1
            /\ obs[p].saves = 0

\* an exception that is no ValueError, though its message lists characters
C9_Witness ==
    \E p \in Procs :
        /\ Calls(p) = 2 /\ Done(p)
        /\ LastAnswer(p).kind = "raise" /\ LastAnswer(p).type # "ValueError"
        /\ LastAnswer(p).listed # <<>>

\* C10: _get_engine holds no lock: a request that has passed the None check
\* constructs whatever self.tts has become since, and stores its own object
\* over the handle another request stored.
C10_Step ==
    \A p \in Procs :
        /\ req[p].pc = "ge_ctor" => ENABLED GeCtor(p)
        /\ (req[p].pc = "ge_store" /\ req'[p].pc = "ge_voices") => tts' = req[p].built

C10_UnguardedInit == [][C10_Step]_vars

\* two requests both constructed; the second handle replaced the first, and
\* the two have called synthesize on different engine objects
C10_Witness ==
    \E p, q \in Procs :
        /\ Len(heap) = 2 /\ tts = 2
        /\ obs[p].ctors = 1 /\ obs[q].ctors = 1
        /\ Calls(p) > 0 /\ Calls(q) > 0
        /\ LastCall(p).engine = 1 /\ LastCall(q).engine = 2

\* the last component of a path or url
BaseName(path) == path[Len(path)]

\* the request ended in an error that arose before or inside the retry loop,
\* or in the wav check that follows it
FailedBeforeSave(p) ==
    /\ Payload(p).ret = "error"
    /\ \/ Payload(p).message \in {<<"input text is empty">>,
                                  <<"engine initialization failed">>}
       \/ obs[p].raised \in {StyleErr, EmptiedErr, EmptyWavErr}
       \/ Calls(p) > 0 /\ obs[p].raised = LastAnswer(p)

\* C11: a request ends with ret='success' only if its last synthesize call
\* returned audio, save_audio was called exactly once, with that audio, and
\* the url names the file that was saved; a request that ends in an error
\* from before or inside the retry loop (or from the wav check) has called
\* neither save_audio nor ffmpeg; a request with a blank text has not even
\* entered _get_engine.
C11_SuccessMeansSaved ==
    \A p \in Procs :
        (Generating(p) /\ Done(p)) =>
            /\ Payload(p).ret = "success" =>
                  /\ Calls(p) > 0 /\ LastAnswer(p).kind = "ok"
                  /\ req[p].wav # NoAudio /\ req[p].wav = Calls(p)
                  /\ obs[p].saves = 1
                  /\ obs[p].savedWav = req[p].wav
                  /\ obs[p].raised = NoErr
                  /\ BaseName(Payload(p).url) = BaseName(obs[p].savedFile)
            /\ FailedBeforeSave(p) => (obs[p].saves = 0 /\ obs[p].ffmpeg = "no")
            /\ (obs[p].strips = 0 /\ IsBlank(req[p].text)) =>
                  /\ Payload(p) = [ret |-> "error", message |-> <<"input text is empty">>]
                  /\ obs[p].ctors = 0 /\ req[p].engine = NoEngine
                  /\ Calls(p) = 0 /\ obs[p].saves = 0

\* success on the second attempt, after one rejection, with the file replaced
\* by ffmpeg
C11_Witness ==
    \E p \in Procs :
        /\ Generating(p) /\ Done(p) /\ Payload(p).ret = "success"
        /\ Calls(p) = 2 /\ obs[p].savedWav = 2 /\ obs[p].ffmpeg = "ok"

====
